---- MODULE Spec2Model ----
(***************************************************************************)
(* A model of the Source-to-LLVM translator of src/src/codegen/codegen.ts. *)
(*                                                                         *)
(* The translator is a recursive descent over an estree AST.  The model    *)
(* runs it as a machine with an explicit call stack: a frame is one        *)
(* activation of a lowering function, and an action is the code of one     *)
(* lowering function between two of its recursive calls to evaluate().     *)
(* The IR under construction is the function's list of basic blocks, each  *)
(* an instruction sequence, and the builder's insertion block.             *)
(***************************************************************************)
EXTENDS Integers, Sequences, FiniteSets, TLC

\* Longest statement list of a generated program body.
MaxBody == 2
\* Deepest nesting of if statements in a generated program.
MaxDepth == 2

(***************************************************************************)
(* AST nodes (estree).  Every node is a record of the same four fields:    *)
(*   Literal             name = source text,   op = typeof value           *)
(*   Identifier          name                                              *)
(*   Unary/Binary/Logical op = operator,       kids = operands             *)
(*   CallExpression      name = callee name,   kids = arguments            *)
(*   ExpressionStatement kids = <<expression>>                             *)
(*   VariableDeclaration name = id.name, op = kind, kids = <<init>>        *)
(*   IfStatement         kids = <<test, consequent, alternate>>            *)
(*   BlockStatement      kids = body                                       *)
(*   Program             kids = body                                       *)
(*   FunctionDeclaration name = id.name (the body is never reached)        *)
(***************************************************************************)
Node(t, n, o, k) == [type |-> t, name |-> n, op |-> o, kids |-> k]

Lit(text, typeof) == Node("Literal", text, typeof, <<>>)

Id(n) == Node("Identifier", n, "", <<>>)

Unary(o, a) == Node("UnaryExpression", "", o, <<a>>)

Binary(o, a, b) == Node("BinaryExpression", "", o, <<a, b>>)

Logical(o, a, b) == Node("LogicalExpression", "", o, <<a, b>>)

Call(callee, args) == Node("CallExpression", callee, "", args)

ExprStmt(e) == Node("ExpressionStatement", "", "", <<e>>)

VarDecl(kind, n, init) == Node("VariableDeclaration", n, kind, <<init>>)

If(t, c, a) == Node("IfStatement", "", "", <<t, c, a>>)

Block(body) == Node("BlockStatement", "", "", body)

Program(body) == Node("Program", "", "", body)

FunctionDeclaration(n) == Node("FunctionDeclaration", n, "", <<>>)

(***************************************************************************)
(* The inputs: programs the parser can produce.                            *)
(***************************************************************************)
One == Lit("1", "number")

True == Lit("true", "boolean")

DeclX == VarDecl("const", "x", One)

RefX == ExprStmt(Id("x"))

\* Statements without control flow.
Simple ==
  { DeclX, RefX,
    VarDecl("const", "y", Id("x")),
    ExprStmt(Call("display", <<Id("x")>>)),
    ExprStmt(Call("foo", <<Id("x")>>)) }

\* The if statements of nesting depth exactly d.
RECURSIVE IfAt(_)
IfAt(d) ==
  IF d = 1
  THEN { If(True, Block(<<a>>), Block(<<b>>)) : a \in {DeclX, RefX}, b \in {DeclX, RefX} }
  ELSE { If(True, Block(<<i>>), Block(<<b>>)) : i \in IfAt(d - 1), b \in {DeclX, RefX} }
       \cup { If(True, Block(<<a>>), Block(<<i>>)) : a \in {DeclX, RefX}, i \in IfAt(d - 1) }

Shallow == Simple \cup IfAt(1)

Deep == UNION { IfAt(d) : d \in 2..MaxDepth }

SeqsUpTo(S, n) == UNION { [1..k -> S] : k \in 0..n }

\* Statement lists: any mix of simple statements and depth-1 ifs, or simple
\* statements around one deeper if.
Bodies ==
  SeqsUpTo(Shallow, MaxBody)
  \cup { b \in SeqsUpTo(Simple \cup Deep, MaxBody) :
           Cardinality({ i \in DOMAIN b : b[i] \in Deep }) = 1 }

\* tests/source1/test_fun2.js: a function declaration, then display(fast_power(2, 10)).
TestFun2 ==
  Program(<< FunctionDeclaration("fast_power"),
             ExprStmt(Call("display",
                           << Call("fast_power", << Lit("2", "number"), Lit("10", "number") >>) >>)) >>)

\* Programs that reach the remaining branches of the lowering functions.
Extras ==
  { TestFun2,
    Program(<< ExprStmt(Call("toString", <<>>)) >>),
    Program(<< ExprStmt(Call("valueOf", <<>>)) >>),
    Program(<< ExprStmt(Call("main", <<>>)) >>),
    Program(<< ExprStmt(Call("foo", <<>>)) >>),
    Program(<< ExprStmt(Call("foo", <<One, Id("y")>>)) >>),
    Program(<< VarDecl("let", "x", One) >>),
    Program(<< Node("VariableDeclaration", "x", "const", <<>>) >>),
    Program(<< DeclX, VarDecl("const", "x", True), RefX >>),
    Program(<< DeclX, VarDecl("const", "y", Binary("+", Id("x"), One)),
               ExprStmt(Call("display", << Binary("+", Id("x"), Id("y")) >>)) >>),
    Program(<< DeclX,
               ExprStmt(Call("display",
                             << Logical("&&", Unary("!", Binary("<", Id("x"), One)), True) >>)) >>),
    Program(<< ExprStmt(Unary("-", One)) >>),
    Program(<< ExprStmt(Binary("%", One, One)) >>),
    Program(<< ExprStmt(Lit("null", "object")) >>),
    Program(<< VarDecl("const", "s", Lit("a", "string")),
               ExprStmt(Binary("+", Id("s"), Id("s"))) >>),
    Program(<< If(One, Block(<<>>), Block(<<>>)) >>),
    Program(<< If(True,
                  Block(<< If(True, Block(<<DeclX>>), Block(<<>>)), RefX >>),
                  Block(<< DeclX, If(True, Block(<<RefX>>), Block(<<DeclX>>)) >>)),
               RefX >>),
    Program(<< DeclX,
               If(Binary("<", Id("x"), One),
                  Block(<< VarDecl("const", "y", Id("x")), ExprStmt(Id("y")) >>),
                  Block(<<>>)),
               ExprStmt(Call("display", <<Id("x")>>)) >>) }

\* eval_toplevel takes any es.Node: roots that are not a Program.
OtherRoots == { One, True, Id("x"), DeclX, If(True, Block(<<>>), Block(<<>>)) }

Inputs == { Program(b) : b \in Bodies } \cup Extras \cup OtherRoots


(***************************************************************************)
(* LLVM types and values.  A type is a base type under `ptr` levels of     *)
(* pointer; a value is a constant (id = 0, lit = its text) or the result   *)
(* of instruction number id.                                               *)
(***************************************************************************)
Ty(b, p) == [base |-> b, ptr |-> p]

IsPointerTy(t) == t.ptr > 0

PtrTo(t) == [t EXCEPT !.ptr = @ + 1]

ElementType(t) == [t EXCEPT !.ptr = @ - 1]

Const(t, text) == [ty |-> t, id |-> 0, lit |-> text]

\* What a lowering function returns when it returns nothing (if, block).
Undefined == Const(Ty("undefined", 0), "")

Inst(i, o, t, n, a, g) ==
  [id |-> i, op |-> o, ty |-> t, name |-> n, args |-> a, tgts |-> g]

ValueOf(inst) == [ty |-> inst.ty, id |-> inst.id, lit |-> ""]

Terminators == {"br", "condbr", "ret"}

IsTerminator(inst) == inst.op \in Terminators

VARIABLES
  ast,      \* the node handed to eval_toplevel
  run,      \* which call of eval_toplevel on ast this is: 1 or 2
  first,    \* <<outcome>> of the first call once the second has begun
  status,   \* "running", "returned" (a module came back) or "thrown"
  err,      \* the message of the error thrown, "" when none
  stack,    \* the activations of lowering functions, innermost last
  ret,      \* the value the last completed evaluate() returned
  env,      \* Environment.names: name -> TypeRecord
  module,   \* the l.Module: its functions and global strings
  bbs,      \* fun.getBasicBlocks(): the ids of the function's blocks, in order
  blocks,   \* every l.BasicBlock created, by id: name, instructions, parent set
  builder,  \* lObj.builder's insertion block id, 0 when it has none
  nvals     \* how many instructions have been created

vars == <<ast, run, first, status, err, stack, ret, env, module, bbs, blocks, builder, nvals>>

Top == stack[Len(stack)]

\* An activation: the node, the position in its lowering function, the values
\* and blocks held in its locals, and the insertion block it was entered with.
NewFrame(n, cur) ==
  [node |-> n, pc |-> 1, vals |-> <<>>, bbs |-> <<>>, entryBlock |-> cur]

\* evaluate()'s jump table.
JumpTable ==
  { "BinaryExpression", "BlockStatement", "CallExpression", "ExpressionStatement",
    "Identifier", "IfStatement", "Literal", "LogicalExpression", "Program",
    "UnaryExpression", "VariableDeclaration" }

\* The lowering function for a node of one of `types` is at position pc.
Lowering(types, pc) ==
  /\ status = "running"
  /\ stack # <<>>
  /\ Top.node.type \in types
  /\ Top.pc = pc

\* The running function moves on as frame f and calls evaluate(child).
CallEvaluate(f, child, cur) ==
  stack' = Append(SubSeq(stack, 1, Len(stack) - 1), f) \o <<NewFrame(child, cur)>>

Return(v) ==
  /\ stack' = SubSeq(stack, 1, Len(stack) - 1)
  /\ ret' = v

\* No lowering function catches: the error unwinds every activation.
Throw(msg) ==
  /\ status' = "thrown"
  /\ err' = msg
  /\ stack' = <<>>

NewBlock(n, inFun) == [name |-> n, insts |-> <<>>, parent |-> inFun]

\* builder.createX with the insertion point at block b: append to b.
Emit(blks, b, inst) ==
  IF b = 0 THEN blks ELSE [blks EXCEPT ![b].insts = Append(@, inst)]

EnvPush(e, n, tr) ==
  [k \in DOMAIN e \cup {n} |-> IF k = n THEN tr ELSE e[k]]

EmptyEnv == [k \in {} |-> 0]

\* The slip: the module of an earlier call is used again.
NewModule_reused(old) == old

\* new l.Module('module', context)
NewModule(old) == [functions |-> <<>>, globals |-> <<>>]

Outcome ==
  [status |-> status, err |-> err, module |-> module, bbs |-> bbs, blocks |-> blocks]

Init ==
  /\ ast \in Inputs
  /\ run = 1
  /\ first = <<>>
  /\ status = "running"
  /\ err = ""
  /\ stack = <<NewFrame(ast, 0)>>
  /\ ret = Undefined
  /\ env = EmptyEnv
  /\ module = NewModule([functions |-> <<>>, globals |-> <<>>])
  /\ bbs = <<>>
  /\ blocks = <<>>
  /\ builder = 0
  /\ nvals = 0

(***************************************************************************)
(* LLVM's structural verification of the function, as far as the           *)
(* instructions this translator emits can violate it.                      *)
(***************************************************************************)
IsFP(t) == t = Ty("double", 0)

IsInt(t) == t.ptr = 0 /\ t.base \in {"i1", "i8", "i32"}

WellTyped(inst) ==
  CASE inst.op \in {"fadd", "fsub", "fmul", "fdiv", "fcmp_olt", "fcmp_ogt",
                    "fcmp_oeq", "fcmp_ole", "fcmp_oge"} ->
         IsFP(inst.args[1].ty) /\ IsFP(inst.args[2].ty)
    [] inst.op \in {"and", "or"} ->
         IsInt(inst.args[1].ty) /\ inst.args[1].ty = inst.args[2].ty
    [] inst.op = "not" -> IsInt(inst.args[1].ty)
    [] inst.op = "condbr" -> inst.args[1].ty = Ty("i1", 0)
    [] inst.op = "load" -> IsPointerTy(inst.args[1].ty)
    [] inst.op = "store" -> inst.args[2].ty = PtrTo(inst.args[1].ty)
    [] OTHER -> TRUE

InList(list, b) == \E i \in DOMAIN list : list[i] = b

VerifyFunction(blks, list) ==
  \A i \in DOMAIN list :
    LET ins == blks[list[i]].insts IN
      /\ Len(ins) > 0
      /\ IsTerminator(ins[Len(ins)])
      /\ \A j \in 1..(Len(ins) - 1) : ~IsTerminator(ins[j])
      /\ \A j \in DOMAIN ins :
           /\ WellTyped(ins[j])
           /\ \A k \in DOMAIN ins[j].tgts : InList(list, ins[j].tgts[k])


(***************************************************************************)
(* Function frames.                                                        *)
(***************************************************************************)
VoidTy == Ty("void", 0)

\* The l.Function evalProgramExpression returns.
MainFun == Const(Ty("function", 1), "main")

\* The function is created under the fixed name 'main', with its hoist and
\* entry blocks, and the builder is put on entry.
functionSetup(m, blks) ==
  [ module  |-> [m EXCEPT !.functions = Append(@, "main")],
    blocks  |-> blks \o << NewBlock("hoist", TRUE), NewBlock("entry", TRUE) >>,
    bbs     |-> << Len(blks) + 1, Len(blks) + 2 >>,
    builder |-> Len(blks) + 2 ]

\* The slip: the hoist block branches to the last block.
TeardownBranchTarget_last(list) == list[Len(list)]

\* createBr(bbs[1]): the block the hoist block branches to.
TeardownBranchTarget(list) == list[2]

\* Branch from the hoist block, return from the last block of the list.
functionTeardown(blks, list, n) ==
  LET br  == Inst(n + 1, "br", VoidTy, "", <<>>, << TeardownBranchTarget(list) >>)
      rv  == Inst(n + 2, "ret", VoidTy, "", <<>>, <<>>)
      b1  == Emit(blks, list[1], br)
  IN [ blocks  |-> Emit(b1, list[Len(list)], rv),
       builder |-> list[Len(list)],
       nvals   |-> n + 2 ]

\* The slip: the catch does not throw the error on.
TeardownVerdict_swallowed(blks, list) == TRUE

\* try { l.verifyFunction(fun) } catch (e) { ...; throw e }
TeardownVerdict(blks, list) == VerifyFunction(blks, list)

evalProgramExpression_setup ==
  /\ Lowering({"Program"}, 1)
  /\ LET s == functionSetup(module, blocks) IN
       /\ module' = s.module
       /\ blocks' = s.blocks
       /\ bbs' = s.bbs
       /\ builder' = s.builder
  /\ stack' = [stack EXCEPT ![Len(stack)].pc = 2]
  /\ UNCHANGED <<ast, run, first, status, err, ret, env, nvals>>

\* node.body.map(x => evaluate(x, env, lObj)), one statement at a time.
evalProgramExpression_body ==
  /\ Lowering({"Program"}, Top.pc)
  /\ Top.pc \in 2..(Len(Top.node.kids) + 1)
  /\ CallEvaluate([Top EXCEPT !.pc = @ + 1], Top.node.kids[Top.pc - 1], builder)
  /\ UNCHANGED <<ast, run, first, status, err, ret, env, module, bbs, blocks, builder, nvals>>

evalProgramExpression_teardown ==
  /\ Lowering({"Program"}, Len(Top.node.kids) + 2)
  /\ LET t == functionTeardown(blocks, bbs, nvals) IN
       /\ blocks' = t.blocks
       /\ builder' = t.builder
       /\ nvals' = t.nvals
       /\ IF TeardownVerdict(t.blocks, bbs)
          THEN Return(MainFun) /\ UNCHANGED <<status, err>>
          ELSE Throw("Function verification failed") /\ UNCHANGED ret
  /\ UNCHANGED <<ast, run, first, env, module, bbs>>

(***************************************************************************)
(* Statements.                                                             *)
(***************************************************************************)
evalBlockStatement ==
  /\ Lowering({"BlockStatement"}, Top.pc)
  /\ IF Top.pc <= Len(Top.node.kids)
     THEN CallEvaluate([Top EXCEPT !.pc = @ + 1], Top.node.kids[Top.pc], builder)
          /\ UNCHANGED ret
     ELSE Return(Undefined)
  /\ UNCHANGED <<ast, run, first, status, err, env, module, bbs, blocks, builder, nvals>>

evalExpressionStatement ==
  /\ Lowering({"ExpressionStatement"}, Top.pc)
  /\ IF Top.pc = 1
     THEN CallEvaluate([Top EXCEPT !.pc = 2], Top.node.kids[1], builder)
          /\ UNCHANGED ret
     ELSE Return(ret)
  /\ UNCHANGED <<ast, run, first, status, err, env, module, bbs, blocks, builder, nvals>>

\* fun.addBasicBlock(bb)
AddBasicBlock(blks, b) == [blks EXCEPT ![b].parent = TRUE]

\* Creates the three blocks, detached, and lowers the test.
evalIfStatement_test ==
  /\ Lowering({"IfStatement"}, 1)
  /\ IF builder = 0
     THEN \* getInsertBlock() is undefined: reading .parent throws
          /\ Throw("TypeError")
          /\ UNCHANGED <<ret, blocks>>
     ELSE LET n == Len(blocks) IN
          /\ blocks' = blocks \o << NewBlock("then", FALSE), NewBlock("else", FALSE),
                                    NewBlock("after_if", FALSE) >>
          /\ CallEvaluate([Top EXCEPT !.pc = 2, !.bbs = << n + 1, n + 2, n + 3 >>],
                          Top.node.kids[1], builder)
          /\ UNCHANGED <<status, err, ret>>
  /\ UNCHANGED <<ast, run, first, env, module, bbs, builder, nvals>>

\* createCondBr(test, thenbb, elsebb); then the consequent in thenbb.
evalIfStatement_then ==
  /\ Lowering({"IfStatement"}, 2)
  /\ LET thenbb == Top.bbs[1]
         elsebb == Top.bbs[2]
         cbr    == Inst(nvals + 1, "condbr", VoidTy, "", <<ret>>, << thenbb, elsebb >>)
     IN /\ blocks' = AddBasicBlock(Emit(blocks, builder, cbr), thenbb)
        /\ bbs' = Append(bbs, thenbb)
        /\ builder' = thenbb
        /\ nvals' = nvals + 1
        /\ CallEvaluate([Top EXCEPT !.pc = 3], Top.node.kids[2], thenbb)
  /\ UNCHANGED <<ast, run, first, status, err, ret, env, module>>

\* The slip: the consequent runs on into the alternate.
ThenExitTarget_fallthrough(thenbb, elsebb, afterbb) == elsebb

\* The target of the createBr that ends the consequent.
ThenExitTarget(thenbb, elsebb, afterbb) == afterbb

\* createBr(afterbb); then the alternate in elsebb.
evalIfStatement_else ==
  /\ Lowering({"IfStatement"}, 3)
  /\ LET elsebb == Top.bbs[2]
         br     == Inst(nvals + 1, "br", VoidTy, "", <<>>,
                        << ThenExitTarget(Top.bbs[1], Top.bbs[2], Top.bbs[3]) >>)
     IN /\ blocks' = AddBasicBlock(Emit(blocks, builder, br), elsebb)
        /\ bbs' = Append(bbs, elsebb)
        /\ builder' = elsebb
        /\ nvals' = nvals + 1
        /\ CallEvaluate([Top EXCEPT !.pc = 4], Top.node.kids[3], elsebb)
  /\ UNCHANGED <<ast, run, first, status, err, ret, env, module>>

\* The slip: the builder is left on the else block.
JoinBlock_stale(thenbb, elsebb, afterbb) == elsebb

\* The block of the final setInsertionPoint.
JoinBlock(thenbb, elsebb, afterbb) == afterbb

\* createBr(afterbb); translation resumes in afterbb.
evalIfStatement_after ==
  /\ Lowering({"IfStatement"}, 4)
  /\ LET afterbb == Top.bbs[3]
         br      == Inst(nvals + 1, "br", VoidTy, "", <<>>, << afterbb >>)
     IN /\ blocks' = AddBasicBlock(Emit(blocks, builder, br), afterbb)
        /\ bbs' = Append(bbs, afterbb)
        /\ builder' = JoinBlock(Top.bbs[1], Top.bbs[2], Top.bbs[3])
        /\ nvals' = nvals + 1
        /\ Return(Undefined)
  /\ UNCHANGED <<ast, run, first, status, err, env, module>>

\* isNumber / isBool / isString on the shape of the value.
TypeTag(v) ==
  CASE v.ty = Ty("double", 0) -> "NUMBER"
    [] v.ty = Ty("i1", 0) -> "BOOLEAN"
    [] v.ty = Ty("i8", 1) -> "STRING"
    [] OTHER -> "UNKNOWN"

\* The slip: the alloca is emitted where the builder stands.
AllocaPoint_inPlace(insertblock, list) == insertblock

\* setInsertionPoint(thefunction.getBasicBlocks()[0]) before createAlloca.
AllocaPoint(insertblock, list) == list[1]

\* The slip: the builder is not put back after the alloca.
StorePoint_notRestored(insertblock, list) == list[1]

\* setInsertionPoint(insertblock) before createStore.
StorePoint(insertblock, list) == insertblock

evalVariableDeclarationExpression_init ==
  /\ Lowering({"VariableDeclaration"}, 1)
  /\ IF Top.node.op # "const"
     THEN Throw("We can only do const right now")
     ELSE IF Len(Top.node.kids) = 0
     THEN Throw("Something wrong with the literal")
     ELSE CallEvaluate([Top EXCEPT !.pc = 2], Top.node.kids[1], builder)
          /\ UNCHANGED <<status, err>>
  /\ UNCHANGED <<ast, run, first, ret, env, module, bbs, blocks, builder, nvals>>

\* The alloca goes to the hoist block, the store to the block under way.
evalVariableDeclarationExpression ==
  /\ Lowering({"VariableDeclaration"}, 2)
  /\ IF Top.node.name = ""
     THEN /\ Throw("Something wrong with the literal")
          /\ UNCHANGED <<ret, env, blocks, builder, nvals>>
     ELSE IF builder = 0
     THEN \* insertblock is undefined: reading .parent throws
          /\ Throw("TypeError")
          /\ UNCHANGED <<ret, env, blocks, builder, nvals>>
     ELSE LET value       == ret
              insertblock == builder
              at          == AllocaPoint(insertblock, bbs)
              allocInst   == Inst(nvals + 1, "alloca", PtrTo(value.ty), Top.node.name, <<>>, <<>>)
              b1          == Emit(blocks, at, allocInst)
              back        == StorePoint(insertblock, bbs)
              store       == Inst(nvals + 2, "store", VoidTy, "",
                                  << value, ValueOf(allocInst) >>, <<>>)
          IN /\ blocks' = Emit(b1, back, store)
             /\ builder' = back
             /\ nvals' = nvals + 2
             /\ env' = EnvPush(env, Top.node.name,
                               [value |-> ValueOf(allocInst), type |-> TypeTag(value)])
             /\ Return(ValueOf(allocInst))
             /\ UNCHANGED <<status, err>>
  /\ UNCHANGED <<ast, run, first, module, bbs>>


(***************************************************************************)
(* Expressions.                                                            *)
(***************************************************************************)
evalLiteralExpression ==
  /\ Lowering({"Literal"}, 1)
  /\ CASE Top.node.op = "string" ->
            \* createGlobalStringPtr: a global in the module, no instruction
            /\ module' = [module EXCEPT !.globals = Append(@, Top.node.name)]
            /\ Return(Const(Ty("i8", 1), Top.node.name))
            /\ UNCHANGED <<status, err>>
       [] Top.node.op = "number" ->
            /\ Return(Const(Ty("double", 0), Top.node.name))
            /\ UNCHANGED <<status, err, module>>
       [] Top.node.op = "boolean" ->
            /\ Return(Const(Ty("i1", 0), Top.node.name))
            /\ UNCHANGED <<status, err, module>>
       [] OTHER ->
            /\ Throw("Unimplemented literal type")
            /\ UNCHANGED <<ret, module>>
  /\ UNCHANGED <<ast, run, first, env, bbs, blocks, builder, nvals>>

evalIdentifierExpression ==
  /\ Lowering({"Identifier"}, 1)
  /\ IF Top.node.name \in DOMAIN env
     THEN LET v    == env[Top.node.name]
              load == Inst(nvals + 1, "load", ElementType(v.value.ty), "", << v.value >>, <<>>)
          IN /\ blocks' = Emit(blocks, builder, load)
             /\ nvals' = nvals + 1
             /\ Return(ValueOf(load))
             /\ UNCHANGED <<status, err>>
     ELSE /\ Throw("Cannot find name")
          /\ UNCHANGED <<ret, blocks, nvals>>
  /\ UNCHANGED <<ast, run, first, env, module, bbs, builder>>

\* v.type.isPointerTy() ? createLoad(v) : v, with the instructions it emits.
LoadIfPointer(v, n) ==
  IF IsPointerTy(v.ty)
  THEN LET load == Inst(n + 1, "load", ElementType(v.ty), "", << v >>, <<>>)
       IN [val |-> ValueOf(load), insts |-> << load >>]
  ELSE [val |-> v, insts |-> <<>>]

RECURSIVE EmitAll(_, _, _)
EmitAll(blks, b, insts) ==
  IF insts = <<>> THEN blks ELSE EmitAll(Emit(blks, b, Head(insts)), b, Tail(insts))

evalUnaryExpression ==
  /\ Lowering({"UnaryExpression"}, Top.pc)
  /\ IF Top.pc = 1
     THEN /\ CallEvaluate([Top EXCEPT !.pc = 2], Top.node.kids[1], builder)
          /\ UNCHANGED <<status, err, ret, blocks, nvals>>
     ELSE LET val == LoadIfPointer(ret, nvals)
              n   == nvals + Len(val.insts)
              b1  == EmitAll(blocks, builder, val.insts)
              neg == Inst(n + 1, "not", val.val.ty, "", << val.val >>, <<>>)
          IN IF Top.node.op = "!"
             THEN /\ blocks' = Emit(b1, builder, neg)
                  /\ nvals' = n + 1
                  /\ Return(ValueOf(neg))
                  /\ UNCHANGED <<status, err>>
             ELSE /\ blocks' = b1
                  /\ nvals' = n
                  /\ Throw("Unknown operator")
                  /\ UNCHANGED ret
  /\ UNCHANGED <<ast, run, first, env, module, bbs, builder>>

\* The switch on node.operator: the instruction each operator creates.
Operators ==
  [ o \in {"+", "-", "*", "/", "<", ">", "===", "<=", ">=", "&&", "||"} |->
      CASE o = "+" -> "fadd"
        [] o = "-" -> "fsub"
        [] o = "*" -> "fmul"
        [] o = "/" -> "fdiv"
        [] o = "<" -> "fcmp_olt"
        [] o = ">" -> "fcmp_ogt"
        [] o = "===" -> "fcmp_oeq"
        [] o = "<=" -> "fcmp_ole"
        [] o = ">=" -> "fcmp_oge"
        [] o = "&&" -> "and"
        [] o = "||" -> "or" ]

ResultTy(op, left) ==
  IF op \in {"fcmp_olt", "fcmp_ogt", "fcmp_oeq", "fcmp_ole", "fcmp_oge"}
  THEN Ty("i1", 0)
  ELSE left.ty

evalBinaryStatement ==
  /\ Lowering({"BinaryExpression", "LogicalExpression"}, Top.pc)
  /\ CASE Top.pc = 1 ->
            /\ CallEvaluate([Top EXCEPT !.pc = 2], Top.node.kids[1], builder)
            /\ UNCHANGED <<status, err, ret, blocks, nvals>>
       [] Top.pc = 2 ->
            /\ CallEvaluate([Top EXCEPT !.pc = 3, !.vals = << ret >>], Top.node.kids[2], builder)
            /\ UNCHANGED <<status, err, ret, blocks, nvals>>
       [] OTHER ->
            LET left  == LoadIfPointer(Top.vals[1], nvals)
                right == LoadIfPointer(ret, nvals + Len(left.insts))
                n     == nvals + Len(left.insts) + Len(right.insts)
                b1    == EmitAll(blocks, builder, left.insts \o right.insts)
            IN IF Top.node.op \in DOMAIN Operators
               THEN LET op   == Operators[Top.node.op]
                        inst == Inst(n + 1, op, ResultTy(op, left.val), "",
                                     << left.val, right.val >>, <<>>)
                    IN /\ blocks' = Emit(b1, builder, inst)
                       /\ nvals' = n + 1
                       /\ Return(ValueOf(inst))
                       /\ UNCHANGED <<status, err>>
               ELSE /\ blocks' = b1
                    /\ nvals' = n
                    /\ Throw("Unknown operator")
                    /\ UNCHANGED ret
  /\ UNCHANGED <<ast, run, first, env, module, bbs, builder>>

(***************************************************************************)
(* Calls.                                                                  *)
(***************************************************************************)
\* The own property of the builtins object literal.
Builtins == {"display"}

\* What builtins[callee] also finds: the properties the object literal
\* inherits from Object.prototype.
ObjectPrototype ==
  { "constructor", "hasOwnProperty", "isPrototypeOf", "propertyIsEnumerable",
    "toLocaleString", "toString", "valueOf" }

\* Of those, the ones that return when called with no receiver.
ReturnsUnbound == { "constructor", "toString" }

\* The display builtin: a call of the runtime's output function on the
\* lowered arguments.
display(args, n) == Inst(n + 1, "call", Ty("i32", 0), "display", args, <<>>)

InModule(m, callee) == \E i \in DOMAIN m.functions : m.functions[i] = callee

\* node.arguments.map(x => evaluate(x, env, lObj)), one argument at a time.
evalCallExpression_args ==
  /\ Lowering({"CallExpression"}, Top.pc)
  /\ Top.pc <= Len(Top.node.kids)
  /\ CallEvaluate([Top EXCEPT !.pc = @ + 1,
                              !.vals = IF Top.pc > 1 THEN Append(@, ret) ELSE @],
                  Top.node.kids[Top.pc], builder)
  /\ UNCHANGED <<ast, run, first, status, err, ret, env, module, bbs, blocks, builder, nvals>>

evalCallExpression ==
  /\ Lowering({"CallExpression"}, Len(Top.node.kids) + 1)
  /\ LET callee == Top.node.name
         args   == IF Len(Top.node.kids) > 0 THEN Append(Top.vals, ret) ELSE <<>>
     IN CASE callee \in Builtins ->
               LET call == display(args, nvals) IN
                 /\ blocks' = Emit(blocks, builder, call)
                 /\ nvals' = nvals + 1
                 /\ Return(ValueOf(call))
                 /\ UNCHANGED <<status, err>>
          [] callee \in ObjectPrototype /\ callee \in ReturnsUnbound ->
               \* built is the inherited method: built() returns a JS value
               /\ Return(Const(Ty("object", 0), callee))
               /\ UNCHANGED <<status, err, blocks, nvals>>
          [] callee \in ObjectPrototype /\ callee \notin ReturnsUnbound ->
               /\ Throw("TypeError")
               /\ UNCHANGED <<ret, blocks, nvals>>
          [] OTHER ->
               IF InModule(module, callee)
               THEN LET call == Inst(nvals + 1, "call", VoidTy, callee, args, <<>>) IN
                      /\ blocks' = Emit(blocks, builder, call)
                      /\ nvals' = nvals + 1
                      /\ Return(ValueOf(call))
                      /\ UNCHANGED <<status, err>>
               ELSE /\ Throw("Undefined function")
                    /\ UNCHANGED <<ret, blocks, nvals>>
  /\ UNCHANGED <<ast, run, first, env, module, bbs, builder>>

(***************************************************************************)
(* The driver.                                                             *)
(***************************************************************************)
\* No entry in the jump table.
evaluate ==
  /\ status = "running"
  /\ stack # <<>>
  /\ Top.node.type \notin JumpTable
  /\ Throw("Not implemented")
  /\ UNCHANGED <<ast, run, first, ret, env, module, bbs, blocks, builder, nvals>>

\* evaluate(node, ...) came back: return module.
eval_toplevel ==
  /\ status = "running"
  /\ stack = <<>>
  /\ status' = "returned"
  /\ UNCHANGED <<ast, run, first, err, stack, ret, env, module, bbs, blocks, builder, nvals>>

\* A second call of eval_toplevel on the same node: a new context, module,
\* builder and environment.
eval_toplevel_again ==
  /\ run = 1
  /\ status # "running"
  /\ run' = 2
  /\ first' = << Outcome >>
  /\ status' = "running"
  /\ err' = ""
  /\ stack' = << NewFrame(ast, 0) >>
  /\ ret' = Undefined
  /\ env' = EmptyEnv
  /\ module' = NewModule(module)
  /\ bbs' = <<>>
  /\ blocks' = <<>>
  /\ builder' = 0
  /\ nvals' = 0
  /\ UNCHANGED ast

Next ==
  \/ evalProgramExpression_setup
  \/ evalProgramExpression_body
  \/ evalProgramExpression_teardown
  \/ evalBlockStatement
  \/ evalExpressionStatement
  \/ evalIfStatement_test
  \/ evalIfStatement_then
  \/ evalIfStatement_else
  \/ evalIfStatement_after
  \/ evalVariableDeclarationExpression_init
  \/ evalVariableDeclarationExpression
  \/ evalLiteralExpression
  \/ evalIdentifierExpression
  \/ evalUnaryExpression
  \/ evalBinaryStatement
  \/ evalCallExpression_args
  \/ evalCallExpression
  \/ evaluate
  \/ eval_toplevel
  \/ eval_toplevel_again

Spec == Init /\ [][Next]_vars


(***************************************************************************)
(* The control-flow graph of the function under construction.              *)
(***************************************************************************)
Insts(blks, b) == blks[b].insts

Sealed(blks, b) ==
  Insts(blks, b) # <<>> /\ IsTerminator(Insts(blks, b)[Len(Insts(blks, b))])

LastInst(blks, b) == Insts(blks, b)[Len(Insts(blks, b))]

Succs(blks, b) ==
  IF Sealed(blks, b)
  THEN { LastInst(blks, b).tgts[k] : k \in DOMAIN LastInst(blks, b).tgts }
  ELSE {}

\* The blocks reached from the blocks of S along paths that enter no block of stop.
RECURSIVE Reach(_, _, _)
Reach(blks, S, stop) ==
  LET N == S \cup (UNION { Succs(blks, b) : b \in S } \ stop)
  IN IF N = S THEN S ELSE Reach(blks, N, stop)

Pos(list, b) == CHOOSE i \in DOMAIN list : list[i] = b

TerminatorCount(blks, b) ==
  Cardinality({ j \in DOMAIN Insts(blks, b) : IsTerminator(Insts(blks, b)[j]) })

RECURSIVE ContainsIf(_)
ContainsIf(node) ==
  \/ node.type = "IfStatement"
  \/ \E i \in DOMAIN node.kids : ContainsIf(node.kids[i])

\* A lowering function returns normally in this step.
ReturnStep ==
  /\ status = "running"
  /\ stack # <<>>
  /\ status' = "running"
  /\ Len(stack') = Len(stack) - 1

(***************************************************************************)
(* C1.  When eval_toplevel returns for a program, the one function built   *)
(* has a hoist block of allocas followed by a single branch to block 1,    *)
(* and every block of the function holds exactly one terminator, as its    *)
(* last instruction.                                                       *)
(***************************************************************************)
C1_FrameShape ==
  (status = "returned" /\ ast.type = "Program") =>
    /\ Len(module.functions) = 1
    /\ Len(bbs) >= 2
    /\ LET h == Insts(blocks, bbs[1]) IN
         /\ Len(h) >= 1
         /\ \A j \in 1..(Len(h) - 1) : h[j].op = "alloca"
         /\ h[Len(h)].op = "br"
         /\ h[Len(h)].tgts = << bbs[2] >>
    /\ \A b \in DOMAIN blocks :
         /\ InList(bbs, b)
         /\ Sealed(blocks, b)
         /\ TerminatorCount(blocks, b) = 1

\* A program with a nested if and hoisted declarations has been translated.
C1_Witness ==
  /\ status = "returned"
  /\ Len(bbs) >= 8
  /\ Len(Insts(blocks, bbs[1])) >= 3

(***************************************************************************)
(* C2.  When evalIfStatement returns, at any depth: the block it was       *)
(* entered on ends in a conditional branch to its then and else blocks;    *)
(* every path from either reaches its after block, by an unconditional     *)
(* branch, without entering the other; and the builder is on the after     *)
(* block.                                                                  *)
(***************************************************************************)
\* The blocks from `from` up to the join all flow on into `join`, never into `other`.
FlowsTo(blks, list, from, join, other) ==
  LET R == Reach(blks, {from}, {join}) IN
    /\ other \notin R
    /\ \E b \in R : join \in Succs(blks, b)
    /\ \A b \in R :
         /\ InList(list, b)
         /\ Sealed(blks, b)
         /\ Succs(blks, b) # {}
         /\ Succs(blks, b) \subseteq R \cup {join}
         /\ join \in Succs(blks, b) => LastInst(blks, b).op = "br"
         /\ \A n \in Succs(blks, b) : Pos(list, n) > Pos(list, b)

IfLowered(f, blks, list, cur) ==
  LET thenbb == f.bbs[1]
      elsebb == f.bbs[2]
      afterbb == f.bbs[3]
  IN /\ Cardinality({thenbb, elsebb, afterbb, f.entryBlock}) = 4
     /\ Sealed(blks, f.entryBlock)
     /\ LastInst(blks, f.entryBlock).op = "condbr"
     /\ LastInst(blks, f.entryBlock).tgts = << thenbb, elsebb >>
     /\ \A b \in DOMAIN blks :
          (Succs(blks, b) \cap {thenbb, elsebb} # {}) => b = f.entryBlock
     /\ FlowsTo(blks, list, thenbb, afterbb, elsebb)
     /\ FlowsTo(blks, list, elsebb, afterbb, thenbb)
     /\ ~Sealed(blks, afterbb)
     /\ cur = afterbb

\* C2: the step in which evalIfStatement returns leaves the if lowered as above.
C2_IfJoins ==
  [][ (Lowering({"IfStatement"}, 4) /\ ReturnStep)
        => IfLowered(Top, blocks', bbs', builder') ]_vars

\* An inner if has been lowered: its after block branches on to the outer one.
C2_Witness ==
  \E b \in DOMAIN blocks :
    /\ blocks[b].name = "after_if"
    /\ Sealed(blocks, b)
    /\ LastInst(blocks, b).op = "br"

(***************************************************************************)
(* C3.  Every load emitted for a reference to x reads the slot of a        *)
(* declaration of x whose store has run earlier on every path of the       *)
(* emitted function that reaches the load.                                 *)
(***************************************************************************)
IsSlot(v) ==
  bbs # <<>> /\ \E j \in DOMAIN Insts(blocks, bbs[1]) :
     Insts(blocks, bbs[1])[j].op = "alloca" /\ Insts(blocks, bbs[1])[j].id = v.id

StoresTo(inst, slot) == inst.op = "store" /\ inst.args[2].id = slot.id

StoreBlocks(slot) ==
  { b \in DOMAIN blocks : \E j \in DOMAIN Insts(blocks, b) : StoresTo(Insts(blocks, b)[j], slot) }

\* C3: in the returned function, the store to a slot precedes every load of it.
C3_DeclaredValueRead ==
  status = "returned" =>
    \A i \in DOMAIN bbs :
      LET b == bbs[i] IN
        \A j \in DOMAIN Insts(blocks, b) :
          LET inst == Insts(blocks, b)[j] IN
            (inst.op = "load" /\ IsSlot(inst.args[1])) =>
              \/ \E k \in 1..(j - 1) : StoresTo(Insts(blocks, b)[k], inst.args[1])
              \/ b \notin Reach(blocks, {bbs[1]}, StoreBlocks(inst.args[1]))

(***************************************************************************)
(* C4.  Lowering an identifier that is not in the environment throws       *)
(* 'Cannot find name', and the lowering of a call whose callee is neither  *)
(* the display builtin nor a function of the module ends by throwing       *)
(* 'Undefined function', whatever the callee and the arguments.            *)
(***************************************************************************)
Unresolvable(callee) == callee \notin Builtins /\ ~InModule(module, callee)

\* C4: an unknown identifier throws UndefinedName; a call frame with an
\* unresolvable callee leaves the stack only by throwing UndefinedFunction.
C4_UndefinedRaises ==
  [][ /\ (Lowering({"Identifier"}, 1) /\ Top.node.name \notin DOMAIN env)
           => (status' = "thrown" /\ err' = "Cannot find name")
      /\ \A i \in DOMAIN stack :
           ( /\ status = "running"
             /\ stack[i].node.type = "CallExpression"
             /\ Unresolvable(stack[i].node.name)
             /\ Len(stack') < i )
           => (status' = "thrown" /\ err' = "Undefined function") ]_vars

(***************************************************************************)
(* C5.  Whatever node eval_toplevel is given, it either throws, or returns *)
(* a module that holds exactly one function, the top-level wrapper, torn   *)
(* down and verified; nothing is returned after an error.                  *)
(***************************************************************************)
ReturnedVerified ==
  /\ err = ""
  /\ module.functions = << "main" >>
  /\ Len(bbs) >= 2
  /\ LastInst(blocks, bbs[1]).op = "br"
  /\ LastInst(blocks, bbs[Len(bbs)]).op = "ret"
  /\ VerifyFunction(blocks, bbs)

Propagated == status = "thrown" => (stack = <<>> /\ err # "")

\* C5: a returned module holds the one verified wrapper function, for any root node.
C5_AnyNode ==
  /\ status = "returned" => ReturnedVerified
  /\ Propagated

\* C5, amended: the same, for every root node that is a Program.
C5_ProgramNode ==
  /\ (status = "returned" /\ ast.type = "Program") => ReturnedVerified
  /\ status = "returned" => err = ""
  /\ Propagated

\* A program with an if has come back, verified.
C5_Witness ==
  /\ status = "returned"
  /\ ast.type = "Program"
  /\ Len(bbs) >= 5

C7_TestFun2Translates ==
  (ast = TestFun2 /\ status # "running") =>
    (status = "returned" /\ InModule(module, "fast_power"))

(***************************************************************************)
(* C8.  Within one translation, every name of the environment is bound to  *)
(* a slot whose alloca is already in the hoist block; only the lowering of *)
(* a variable declaration changes the environment, by setting one binding, *)
(* and no name is removed.                                                 *)
(***************************************************************************)
EnvAllocated(e, blks, list) ==
  \A n \in DOMAIN e :
    /\ list # <<>>
    /\ \E j \in DOMAIN Insts(blks, list[1]) :
         /\ Insts(blks, list[1])[j].op = "alloca"
         /\ Insts(blks, list[1])[j].id = e[n].value.id

\* C8: every step of a translation keeps the bindings hoisted and only lets a
\* declaration set one binding.
C8_EnvHoisted ==
  [][ run' = run =>
        /\ EnvAllocated(env', blocks', bbs')
        /\ env' # env =>
             /\ Lowering({"VariableDeclaration"}, 2)
             /\ DOMAIN env' = DOMAIN env \cup {Top.node.name}
             /\ \A n \in DOMAIN env \ {Top.node.name} : env'[n] = env[n] ]_vars

\* A binding has been overwritten by a second declaration of the name.
C8_Witness ==
  /\ bbs # <<>>
  /\ Cardinality(DOMAIN env) = 1
  /\ Len(Insts(blocks, bbs[1])) >= 2

(***************************************************************************)
(* C9.  A lowering function whose node holds no if statement returns with  *)
(* the builder on the block it was entered on.  A variable declaration     *)
(* appends one alloca to the hoist block and its store to the block it was *)
(* entered on, never to the hoist block.  Only the lowering of an if (and  *)
(* the set-up of the function) moves the builder.                          *)
(***************************************************************************)
DeclEmitted(f, blks, blks1, list, cur) ==
  LET h == list[1] IN
    /\ cur # h
    /\ Len(Insts(blks1, h)) = Len(Insts(blks, h)) + 1
    /\ LastInst(blks1, h).op = "alloca"
    /\ Len(Insts(blks1, cur)) = Len(Insts(blks, cur)) + 1
    /\ LastInst(blks1, cur).op = "store"
    /\ \A b \in DOMAIN blks : b \notin {h, cur} => blks1[b] = blks[b]

\* C9: returns restore the builder, a declaration emits alloca and store in
\* their places, and only if lowering or the frame set-up moves the builder.
C9_CursorRestored ==
  [][ /\ (ReturnStep /\ ~ContainsIf(Top.node) /\ Top.node.type # "Program")
           => builder' = Top.entryBlock
      /\ (ReturnStep /\ Top.node.type = "VariableDeclaration")
           => DeclEmitted(Top, blocks, blocks', bbs, builder')
      /\ (run' = run /\ builder' # builder)
           => Top.node.type \in {"IfStatement", "Program"} ]_vars

\* A declaration inside a branch has stored into that branch's block.
C9_Witness ==
  \E b \in DOMAIN blocks :
    /\ blocks[b].name = "then"
    /\ \E j \in DOMAIN Insts(blocks, b) : Insts(blocks, b)[j].op = "store"

(***************************************************************************)
(* C10.  After functionSetup and after each statement of the program body, *)
(* the builder's block is the last of the function's list and the only     *)
(* block other than the hoist block without a terminator; so the return    *)
(* that functionTeardown emits seals the block where translation stopped.  *)
(***************************************************************************)
BetweenStatements ==
  /\ status = "running"
  /\ Len(stack) = 1
  /\ Top.node.type = "Program"
  /\ Top.pc >= 2

\* C10: between statements the builder is on the last block, the only open
\* one besides hoist; the return lands on it.
C10_CursorOnLastOpenBlock ==
  /\ BetweenStatements =>
       /\ builder = bbs[Len(bbs)]
       /\ \A i \in 2..Len(bbs) : Sealed(blocks, bbs[i]) <=> bbs[i] # builder
       /\ ~Sealed(blocks, bbs[1])
  /\ (status = "returned" /\ ast.type = "Program") =>
       /\ LastInst(blocks, builder).op = "ret"
       /\ \A b \in DOMAIN blocks : b # builder => LastInst(blocks, b).op # "ret"

\* The body has gone past an if statement and is about to go on.
C10_Witness ==
  /\ BetweenStatements
  /\ Top.pc >= 3
  /\ Len(bbs) >= 5

====
